---- MODULE Spec2Model ----
(***************************************************************************)
(* Model of lookup.js: generation of fixed-length letter combinations,     *)
(* the consonant/vowel pattern filter, and the sequential batch loop that  *)
(* queries the registrar and saves available names.                        *)
(*                                                                         *)
(* A JavaScript string is modelled as a sequence of one-character strings, *)
(* so that split, trim, join, toUpperCase, parseInt and concatenation are  *)
(* computed character by character.                                        *)
(***************************************************************************)
EXTENDS Integers, Sequences, FiniteSets, TLC

\* ------------------------------------------------------------------------
\* Bounds of the model (not program constants)
\* ------------------------------------------------------------------------

\* at most this many batch queries of one run get a response other than a
\* successful one that lists every candidate as taken
MaxEvents == 2

\* the filter alone is applied to sequences of at most this many words
MaxInput == 2

\* the filter alone is applied to all combinations of the lengths up to this
MaxGenerated == 2

\* the filter alone is applied with the lengths 1 .. MaxLength as
\* numberOfLetters
MaxLength == 8

\* longest word and longest signature given to matchesPattern on its own
MaxWord == 4

\* ------------------------------------------------------------------------
\* Program constants
\* ------------------------------------------------------------------------

BATCH_SIZE == 50

DELAY == 2000

SAVE_INTERVAL == 500

\* ------------------------------------------------------------------------
\* Strings
\* ------------------------------------------------------------------------

letters ==
  << "a", "b", "c", "d", "e", "f", "g", "h", "i", "j", "k", "l", "m",
     "n", "o", "p", "q", "r", "s", "t", "u", "v", "w", "x", "y", "z" >>

UpperLetters ==
  << "A", "B", "C", "D", "E", "F", "G", "H", "I", "J", "K", "L", "M",
     "N", "O", "P", "Q", "R", "S", "T", "U", "V", "W", "X", "Y", "Z" >>

VOWELS == << "a", "e", "i", "o", "u" >>

\* the characters String.prototype.trim removes that occur in the model
WhiteSpace == { " " }

Range(s) == { s[k] : k \in 1..Len(s) }

\* String.prototype.toLowerCase on one character
toLowerCase(char) ==
  IF \E k \in 1..Len(UpperLetters) : UpperLetters[k] = char
    THEN letters[CHOOSE k \in 1..Len(UpperLetters) : UpperLetters[k] = char]
    ELSE char

\* String.prototype.toUpperCase on one character
toUpperCase(char) ==
  IF \E k \in 1..Len(letters) : letters[k] = char
    THEN UpperLetters[CHOOSE k \in 1..Len(letters) : letters[k] = char]
    ELSE char

\* String.prototype.includes
includes(s, sub) ==
  \E k \in 0..(Len(s) - Len(sub)) : SubSeq(s, k + 1, k + Len(sub)) = sub

\* String.prototype.startsWith
startsWith(s, sub) ==
  /\ Len(sub) <= Len(s)
  /\ SubSeq(s, 1, Len(sub)) = sub

\* String.prototype.endsWith
endsWith(s, sub) ==
  /\ Len(sub) <= Len(s)
  /\ SubSeq(s, Len(s) - Len(sub) + 1, Len(s)) = sub

\* String.prototype.trim
RECURSIVE trim(_)
trim(s) ==
  IF s = << >> THEN << >>
  ELSE IF s[1] \in WhiteSpace THEN trim(Tail(s))
  ELSE IF s[Len(s)] \in WhiteSpace THEN trim(SubSeq(s, 1, Len(s) - 1))
  ELSE s

\* String.prototype.split with a one-character separator
RECURSIVE split(_, _)
split(s, sep) ==
  IF \A k \in 1..Len(s) : s[k] # sep
    THEN << s >>
    ELSE LET k == CHOOSE j \in 1..Len(s) :
                    /\ s[j] = sep
                    /\ \A h \in 1..(j - 1) : s[h] # sep
         IN  << SubSeq(s, 1, k - 1) >> \o split(SubSeq(s, k + 1, Len(s)), sep)

\* Array.prototype.join with a one-character separator
RECURSIVE join(_, _)
join(parts, sep) ==
  IF parts = << >> THEN << >>
  ELSE IF Len(parts) = 1 THEN parts[1]
  ELSE parts[1] \o << sep >> \o join(Tail(parts), sep)

\* ------------------------------------------------------------------------
\* Pattern classifier
\* ------------------------------------------------------------------------

isVowel(char) == includes(VOWELS, << toLowerCase(char) >>)

getPattern(word) ==
  [k \in 1..Len(word) |-> IF isVowel(word[k]) THEN "V" ELSE "C"]

\* the longer-pattern branch reduced to its first test
matchesPattern_PrefixOnly(word, pattern) ==
  LET wordPattern == getPattern(word)
  IN  IF Len(wordPattern) = Len(pattern)
        THEN wordPattern = pattern
      ELSE IF Len(pattern) < Len(wordPattern)
        THEN \/ startsWith(wordPattern, pattern)
             \/ endsWith(wordPattern, pattern)
             \/ includes(wordPattern, pattern)
      ELSE startsWith(pattern, wordPattern)

matchesPattern(word, pattern) ==
  LET wordPattern == getPattern(word)
  IN  IF Len(wordPattern) = Len(pattern)
        THEN wordPattern = pattern
      ELSE IF Len(pattern) < Len(wordPattern)
        THEN \/ startsWith(wordPattern, pattern)
             \/ endsWith(wordPattern, pattern)
             \/ includes(wordPattern, pattern)
      ELSE \/ startsWith(pattern, wordPattern)
           \/ includes(pattern, wordPattern)

\* as hasGoodPronounceability, two consonants in a row being too many
hasGoodPronounceability_NoDoubleConsonant(word) ==
  LET pattern == getPattern(word)
  IN  IF includes(pattern, << "C", "C" >>) THEN FALSE
      ELSE IF includes(pattern, << "V", "V", "V" >>) THEN FALSE
      ELSE IF ~ includes(pattern, << "V" >>) THEN FALSE
      ELSE IF ~ includes(pattern, << "C" >>) THEN FALSE
      ELSE TRUE

hasGoodPronounceability(word) ==
  LET pattern == getPattern(word)
  IN  IF \/ includes(pattern, << "C", "C", "C" >>)
         \/ includes(pattern, << "C", "C", "C", "C" >>)
        THEN FALSE
      ELSE IF includes(pattern, << "V", "V", "V" >>) THEN FALSE
      ELSE IF ~ includes(pattern, << "V" >>) THEN FALSE
      ELSE IF ~ includes(pattern, << "C" >>) THEN FALSE
      ELSE TRUE

C == "C"

V == "V"

getBestPatternsForLength(length) ==
  CASE length = 2 -> << <<C,V>>, <<V,C>> >>
    [] length = 3 -> << <<C,V,C>>, <<V,C,V>>, <<C,V,V>> >>
    [] length = 4 -> << <<C,V,C,V>>, <<C,V,C,C>>, <<V,C,V,C>>, <<C,V,V,C>> >>
    [] length = 5 -> << <<C,V,C,V,C>>, <<C,V,C,C,V>>, <<C,V,C,V,V>>,
                        <<V,C,V,C,V>> >>
    [] length = 6 -> << <<C,V,C,V,C,V>>, <<C,V,C,C,V,C>>, <<C,V,C,V,C,C>>,
                        <<V,C,V,C,V,C>> >>
    [] length = 7 -> << <<C,V,C,V,C,V,C>>, <<C,V,C,C,V,C,V>>,
                        <<C,V,C,V,C,C,V>> >>
    [] OTHER -> << >>

\* ------------------------------------------------------------------------
\* Pattern filter and combination generator
\* ------------------------------------------------------------------------

StrNone == << "n", "o", "n", "e" >>

StrAuto == << "a", "u", "t", "o" >>

\* patternFilter.split(",").map((p) => p.trim().toUpperCase())
PatternTokens(patternFilter) ==
  LET parts == split(patternFilter, ",")
  IN  [k \in 1..Len(parts) |->
         LET t == trim(parts[k])
         IN  [j \in 1..Len(t) |-> toUpperCase(t[j])]]

\* as filterByPattern, but a combination that matches a signature is kept
\* without the pronounceability test
filterByPattern_MatchOnly(combos, patternFilter, numberOfLetters) ==
  IF patternFilter = StrNone THEN combos
  ELSE IF /\ patternFilter = StrAuto
          /\ Len(getBestPatternsForLength(numberOfLetters)) = 0
    THEN SelectSeq(combos, hasGoodPronounceability)
  ELSE LET patternsToMatch ==
             IF patternFilter = StrAuto
               THEN getBestPatternsForLength(numberOfLetters)
               ELSE PatternTokens(patternFilter)
           Keep(combo) ==
             \E k \in 1..Len(patternsToMatch) :
               matchesPattern(combo, patternsToMatch[k])
       IN  SelectSeq(combos, Keep)

\* as filterByPattern, but the signatures are never consulted
filterByPattern_PlausibleOnly(combos, patternFilter, numberOfLetters) ==
  IF patternFilter = StrNone THEN combos
  ELSE SelectSeq(combos, hasGoodPronounceability)

\* the filter reads the global numberOfLetters; here it is the third argument
filterByPattern(combos, patternFilter, numberOfLetters) ==
  IF patternFilter = StrNone THEN combos
  ELSE IF /\ patternFilter = StrAuto
          /\ Len(getBestPatternsForLength(numberOfLetters)) = 0
    THEN SelectSeq(combos, hasGoodPronounceability)
  ELSE LET patternsToMatch ==
             IF patternFilter = StrAuto
               THEN getBestPatternsForLength(numberOfLetters)
               ELSE PatternTokens(patternFilter)
           Keep(combo) ==
             /\ \E k \in 1..Len(patternsToMatch) :
                  matchesPattern(combo, patternsToMatch[k])
             /\ hasGoodPronounceability(combo)
       IN  SelectSeq(combos, Keep)

\* recurse(prefix, depth): the strings pushed to results by this call, in
\* the order they are pushed
RECURSIVE recurse(_, _, _)
recurse(prefix, depth, length) ==
  IF depth = length THEN << prefix >>
  ELSE LET RECURSIVE Over(_)
           Over(k) ==
             IF k > Len(letters) THEN << >>
             ELSE recurse(prefix \o << letters[k] >>, depth + 1, length)
                    \o Over(k + 1)
       IN  Over(1)

\* the recursion entered one level down
generateCombos_StartAtOne(length) == recurse(<< >>, 1, length)

generateCombos(length) == recurse(<< >>, 0, length)

\* ------------------------------------------------------------------------
\* Command line and environment
\* ------------------------------------------------------------------------

DecDigits == << "0", "1", "2", "3", "4", "5", "6", "7", "8", "9" >>

HexDigits == DecDigits \o << "a", "b", "c", "d", "e", "f" >>

NaN == [isNaN |-> TRUE, val |-> 0]

Num(n) == [isNaN |-> FALSE, val |-> n]

DigitValue(digits, char) ==
  (CHOOSE k \in 1..Len(digits) : digits[k] = toLowerCase(char)) - 1

IsDigit(digits, char) == \E k \in 1..Len(digits) : digits[k] = toLowerCase(char)

\* the longest prefix of s made of digits of the radix
RECURSIVE DigitPrefix(_, _)
DigitPrefix(digits, s) ==
  IF s # << >> /\ IsDigit(digits, s[1])
    THEN << s[1] >> \o DigitPrefix(digits, Tail(s))
    ELSE << >>

RECURSIVE DigitsValue(_, _, _)
DigitsValue(digits, s, acc) ==
  IF s = << >> THEN acc
  ELSE DigitsValue(digits, Tail(s), acc * Len(digits) + DigitValue(digits, s[1]))

RECURSIVE trimStart(_)
trimStart(s) ==
  IF s # << >> /\ s[1] \in WhiteSpace THEN trimStart(Tail(s)) ELSE s

\* parseInt(string) without a radix: leading white space is skipped, a sign
\* is read, a 0x prefix selects base 16, and the longest prefix of digits is
\* the value; what follows the digits is ignored, no digit gives NaN.
\* parseInt(undefined) and parseInt("") are both NaN.
parseInt(str) ==
  LET t      == trimStart(str)
      neg    == t # << >> /\ t[1] = "-"
      u      == IF t # << >> /\ t[1] \in { "-", "+" } THEN Tail(t) ELSE t
      hex    == Len(u) >= 2 /\ u[1] = "0" /\ toLowerCase(u[2]) = "x"
      digits == IF hex THEN HexDigits ELSE DecDigits
      body   == IF hex THEN SubSeq(u, 3, Len(u)) ELSE u
      pre    == DigitPrefix(digits, body)
      value  == DigitsValue(digits, pre, 0)
  IN  IF pre = << >> THEN NaN
      ELSE Num(IF neg THEN 0 - value ELSE value)

DotCom == << ".", "c", "o", "m" >>

\* process.argv[3] || ".com", then split(","), trim, filter(Boolean)
ParseTlds(arg) ==
  LET tldArg == IF arg = << >> THEN DotCom ELSE arg
      parts  == split(tldArg, ",")
      trimmed == [k \in 1..Len(parts) |-> trim(parts[k])]
      NonEmpty(t) == t # << >>
  IN  SelectSeq(trimmed, NonEmpty)

\* process.argv[4] || "auto"
ParsePattern(arg) == IF arg = << >> THEN StrAuto ELSE arg

\* !GODADDY_API_KEY || !GODADDY_API_SECRET
CredentialsMissing(e) == e.key = << >> \/ e.secret = << >>

\* !numberOfLetters || numberOfLetters < 1
LettersInvalid(n) == n.isNaN \/ n.val = 0 \/ n.val < 1

\* ------------------------------------------------------------------------
\* Files and registrar responses
\* ------------------------------------------------------------------------

NewLine == "\n"

\* one file name for every TLD
TextFilePath_Shared(tld) == << "a", "l", "l" >>

\* tld.replace(/^\./, ""): the part of the file name that depends on the TLD
\* (the time stamp and the letter count are the same for all files of a run)
TextFilePath(tld) == IF tld # << >> /\ tld[1] = "." THEN Tail(tld) ELSE tld

\* fs.writeFileSync(path, content)
writeFileSync(fs, path, content) ==
  [q \in (DOMAIN fs) \cup { path } |-> IF q = path THEN content ELSE fs[q]]

\* fs.appendFileSync(path, content)
appendFileSync(fs, path, content) ==
  [q \in (DOMAIN fs) \cup { path } |->
     IF q = path
       THEN (IF path \in DOMAIN fs THEN fs[path] ELSE << >>) \o content
       ELSE fs[q]]

\* as appendDomainsToFile, but the file is overwritten
appendDomainsToFile_Overwrite(fs, paths, tld, domains) ==
  IF Len(domains) = 0 THEN fs
  ELSE writeFileSync(fs, paths[tld], join(domains, NewLine) \o << NewLine >>)

appendDomainsToFile(fs, paths, tld, domains) ==
  IF Len(domains) = 0 THEN fs
  ELSE appendFileSync(fs, paths[tld], join(domains, NewLine) \o << NewLine >>)

\* the lines of a text file, as a reader of the file gets them
Lines(content) ==
  LET parts == split(content, NewLine)
  IN  IF parts[Len(parts)] = << >> THEN SubSeq(parts, 1, Len(parts) - 1)
      ELSE parts

\* as checkDomainsBatch, without the test of response.ok
checkDomainsBatch_IgnoreStatus(response) ==
  IF response.hasDomains THEN response.domains ELSE << >>

\* what checkDomainsBatch returns for a response that arrived: response.ok,
\* then data.domains || []
checkDomainsBatch(response) ==
  IF ~ response.ok THEN << >>
  ELSE IF response.hasDomains THEN response.domains
  ELSE << >>

\* combos.slice(i, i + BATCH_SIZE).map((combo) => `${combo}${tld}`)
\* as BatchAt, the slice ending one element early
BatchAt_Short(cs, at, tld) ==
  LET last == IF at + BATCH_SIZE < Len(cs) THEN at + BATCH_SIZE ELSE Len(cs)
  IN  [k \in 1..(last - at - 1) |-> cs[at + k] \o tld]

BatchAt(cs, at, tld) ==
  LET last == IF at + BATCH_SIZE < Len(cs) THEN at + BATCH_SIZE ELSE Len(cs)
  IN  [k \in 1..(last - at) |-> cs[at + k] \o tld]

\* as AvailableNames, without the test of res.available
AvailableNames_IgnoreFlag(results) ==
  [k \in 1..Len(results) |-> results[k].domain]

\* the names pushed by "for (const res of results) if (res.available)"
AvailableNames(results) ==
  LET IsAvailable(res) == res.available
      found == SelectSeq(results, IsAvailable)
  IN  [k \in 1..Len(found) |-> found[k].domain]

\* as shouldSave, with > for >=
shouldSave_StrictThreshold(checkedCount, savedAt, total) ==
  \/ checkedCount - savedAt > SAVE_INTERVAL
  \/ checkedCount = total

\* as shouldSave, without the test for the last batch
shouldSave_CadenceOnly(checkedCount, savedAt, total) ==
  checkedCount - savedAt >= SAVE_INTERVAL

shouldSave(checkedCount, savedAt, total) ==
  \/ checkedCount - savedAt >= SAVE_INTERVAL
  \/ checkedCount = total

\* as delayAfterBatch, but no delay after the last batch of a TLD
delayAfterBatch_SkipLast(at, total) ==
  IF at + BATCH_SIZE < total THEN DELAY ELSE 0

\* the time the loop waits after a batch
delayAfterBatch(at, total) == DELAY

\* ------------------------------------------------------------------------
\* Inputs of a run
\* ------------------------------------------------------------------------

Str_io == << ".", "i", "o" >>

Str_io_co == << ".", "i", "o", ",", " ", ".", "c", "o" >>

Str_io_io == << ".", "i", "o", ",", ".", "i", "o" >>

Str_vc == << "v", "c" >>

Str_cv_vc == << "c", "v", ",", " ", "v", "c" >>

\* process.env: an absent and an empty variable are both the empty string
EnvChoices ==
  [key : { << >>, << "k" >> }, secret : { << >>, << "s" >> }]

\* process.argv[2..4]: an absent and an empty argument are both the empty
\* string (parseInt and || treat them alike)
ArgvChoices ==
  { [n |-> << "2" >>, t |-> << >>, p |-> StrNone],
    [n |-> << "2" >>, t |-> Str_io_co, p |-> << >>],
    [n |-> << "2" >>, t |-> Str_io_io, p |-> Str_vc],
    [n |-> << "2" >>, t |-> << "," >>, p |-> Str_cv_vc],
    [n |-> << "1", "x" >>, t |-> Str_io, p |-> StrNone],
    [n |-> << " ", "1" >>, t |-> Str_io_co, p |-> << >>],
    [n |-> << >>, t |-> << >>, p |-> << >>],
    [n |-> << "0" >>, t |-> Str_io, p |-> StrNone],
    [n |-> << "-", "1" >>, t |-> Str_io, p |-> << >>],
    [n |-> << "x" >>, t |-> Str_io_co, p |-> Str_vc] }

\* content of a file left by an earlier run
Stale == << "o", "l", "d", NewLine >>

NoFiles == [q \in {} |-> << >>]

\* the disk at start: the text file of .io exists already (it is truncated
\* by the initialisation), those of the other TLDs do not (they are created)
DiskChoices == { [q \in { << "i", "o" >> } |-> Stale] }

NoJson == [exists |-> FALSE, writes |-> 0, content |-> NoFiles]

\* a response that lists every candidate of the batch, those at the
\* positions in hits as available
Listing(b, hits) ==
  [k \in 1..Len(b) |-> [domain |-> b[k], available |-> k \in hits]]

Quiet(b) == [ok |-> TRUE, hasDomains |-> TRUE, domains |-> Listing(b, {})]

Eventful(b) ==
  { [ok |-> TRUE, hasDomains |-> TRUE, domains |-> Listing(b, { 1, Len(b) })],
    [ok |-> TRUE, hasDomains |-> FALSE, domains |-> << >>],
    [ok |-> FALSE, hasDomains |-> TRUE, domains |-> Listing(b, { 1, Len(b) })] }

NoResponse == [ok |-> FALSE, hasDomains |-> FALSE, domains |-> << >>]

\* ------------------------------------------------------------------------
\* State
\* ------------------------------------------------------------------------

VARIABLES
  env,              \* process.env: the two credentials
  argv,             \* process.argv[2], [3], [4]
  pc,               \* position of the script
  numberOfLetters,
  tlds,
  patternArg,
  allCombos,
  combos,
  available,
  textFilePaths,
  domainCounters,
  files,            \* the text files on disk, by path
  jsonFile,         \* domains/available.json
  initIdx,          \* position of the file initialisation loop
  tldIdx,           \* position of the TLD loop (1-based)
  i,                \* batch loop index
  pendingDomains,
  lastSavedAt,
  batch,            \* body of the request in flight
  inFlight,         \* number of requests in flight
  elapsed,          \* time waited since the last request completed
  queries,          \* log of the requests issued
  saves,            \* log of the appendDomainsToFile calls of the batch loop
  listed,           \* per TLD: names a successful response listed available
  lastResponse,     \* the response to the last request
  events,           \* responses counted against MaxEvents
  call,             \* a function applied on its own: its name and arguments
  result            \* what the call returned

vars ==
  << env, argv, pc, numberOfLetters, tlds, patternArg, allCombos, combos,
     available,
     textFilePaths, domainCounters, files, jsonFile, initIdx, tldIdx, i,
     pendingDomains, lastSavedAt, batch, inFlight, elapsed, queries, saves,
     listed, lastResponse, events, call, result >>

configVars ==
  << env, argv, numberOfLetters, tlds, patternArg, allCombos, combos,
     call, result >>

loopVars == << tldIdx, i, pendingDomains, lastSavedAt >>

netVars == << batch, inFlight, elapsed, queries, lastResponse, events >>

\* no function is applied on its own
NoCall == [fn |-> "none"]

NoResult == << >>

\* nothing has run yet
Fresh ==
  /\ jsonFile = NoJson
  /\ tlds = << >>
  /\ combos = << >>
  /\ available = NoFiles
  /\ textFilePaths = NoFiles
  /\ domainCounters = NoFiles
  /\ initIdx = 0
  /\ tldIdx = 0
  /\ i = 0
  /\ pendingDomains = << >>
  /\ lastSavedAt = 0
  /\ batch = << >>
  /\ inFlight = 0
  /\ elapsed = 0
  /\ queries = << >>
  /\ saves = << >>
  /\ listed = NoFiles
  /\ lastResponse = NoResponse
  /\ events = 0

Init ==
  /\ env \in EnvChoices
  /\ argv \in ArgvChoices
  /\ files \in DiskChoices
  /\ pc = "credentials"
  /\ numberOfLetters = NaN
  /\ patternArg = << >>
  /\ allCombos = << >>
  /\ call = NoCall
  /\ result = NoResult
  /\ Fresh

\* ------------------------------------------------------------------------
\* Start-up
\* ------------------------------------------------------------------------

\* lines 5-11: the credential check
CheckCredentials ==
  /\ pc = "credentials"
  /\ pc' = IF CredentialsMissing(env) THEN "exit1" ELSE "arguments"
  /\ UNCHANGED << configVars, available, textFilePaths, domainCounters,
                  files, jsonFile, initIdx, loopVars, netVars, saves, listed >>

\* lines 13-31: the arguments are read and the letter count is checked
CheckArguments ==
  /\ pc = "arguments"
  /\ numberOfLetters' = parseInt(argv.n)
  /\ tlds' = ParseTlds(argv.t)
  /\ patternArg' = ParsePattern(argv.p)
  /\ pc' = IF LettersInvalid(numberOfLetters') THEN "exit1" ELSE "generate"
  /\ UNCHANGED << call, result, env, argv, allCombos, combos, available, textFilePaths,
                  domainCounters, files, jsonFile, initIdx, loopVars,
                  netVars, saves, listed >>

\* line 177: the combinations are generated
Generate ==
  /\ pc = "generate"
  /\ allCombos' = generateCombos(numberOfLetters.val)
  /\ pc' = "filter"
  /\ UNCHANGED << call, result, env, argv, numberOfLetters, tlds, patternArg, combos,
                  available, textFilePaths, domainCounters, files, jsonFile,
                  initIdx, loopVars, netVars, saves, listed >>

\* lines 182-194: the combinations are filtered and the available
\* sequences are created
Filter ==
  /\ pc = "filter"
  /\ combos' = filterByPattern(allCombos, patternArg, numberOfLetters.val)
  /\ available' = [t \in Range(tlds) |-> << >>]
  /\ listed' = [t \in Range(tlds) |-> {}]
  /\ initIdx' = 1
  /\ pc' = "initFiles"
  /\ UNCHANGED << call, result, env, argv, numberOfLetters, tlds, patternArg, allCombos,
                  textFilePaths, domainCounters, files, jsonFile, loopVars,
                  netVars, saves >>

\* lines 210-220: one iteration of the file initialisation loop
InitFile ==
  /\ pc = "initFiles"
  /\ initIdx <= Len(tlds)
  /\ LET tld  == tlds[initIdx]
         path == TextFilePath(tld)
     IN  /\ textFilePaths' =
              [t \in (DOMAIN textFilePaths) \cup { tld } |->
                 IF t = tld THEN path ELSE textFilePaths[t]]
         /\ domainCounters' =
              [t \in (DOMAIN domainCounters) \cup { tld } |->
                 IF t = tld THEN 0 ELSE domainCounters[t]]
         /\ files' = writeFileSync(files, path, << >>)
  /\ initIdx' = initIdx + 1
  /\ UNCHANGED << configVars, available, jsonFile, pc, loopVars, netVars,
                  saves, listed >>

\* the file initialisation loop is over: the TLD loop starts
InitDone ==
  /\ pc = "initFiles"
  /\ initIdx > Len(tlds)
  /\ tldIdx' = 1
  /\ pc' = "tld"
  /\ UNCHANGED << configVars, available, textFilePaths, domainCounters,
                  files, jsonFile, initIdx, i, pendingDomains, lastSavedAt,
                  netVars, saves, listed >>

\* ------------------------------------------------------------------------
\* The TLD loop (lines 284-335)
\* ------------------------------------------------------------------------

\* lines 284-289: a pass over the next TLD starts
StartTld ==
  /\ pc = "tld"
  /\ tldIdx <= Len(tlds)
  /\ pendingDomains' = << >>
  /\ lastSavedAt' = 0
  /\ i' = 0
  /\ pc' = "batch"
  /\ UNCHANGED << configVars, available, textFilePaths, domainCounters,
                  files, jsonFile, initIdx, tldIdx, netVars, saves, listed >>

\* lines 289-294: the request for the batch at i is sent
IssueQuery ==
  /\ pc = "batch"
  /\ i < Len(combos)
  /\ batch' = BatchAt(combos, i, tlds[tldIdx])
  /\ inFlight' = inFlight + 1
  /\ queries' = Append(queries, [pass |-> tldIdx, at |-> i,
                                 size |-> Len(batch'), waited |-> elapsed,
                                 before |-> Len(available[tlds[tldIdx]]),
                                 pendingBefore |-> Len(pendingDomains),
                                 counterBefore |->
                                   domainCounters[tlds[tldIdx]],
                                 outcome |-> "none"])
  /\ pc' = "query"
  /\ UNCHANGED << configVars, available, textFilePaths, domainCounters,
                  files, jsonFile, initIdx, loopVars, elapsed, lastResponse,
                  events, saves, listed >>

\* lines 294-325 for a response that arrived: the results are accumulated,
\* the counter advances, the pending names are saved when due, and the
\* timer is started
HandleResponse(response) ==
  LET tld          == tlds[tldIdx]
      results      == checkDomainsBatch(response)
      found        == AvailableNames(results)
      pending      == pendingDomains \o found
      checkedCount == domainCounters[tld] + Len(batch)
      save         == /\ shouldSave(checkedCount, lastSavedAt, Len(combos))
                      /\ Len(pending) > 0
  IN  /\ available' = [available EXCEPT ![tld] = @ \o found]
      /\ domainCounters' = [domainCounters EXCEPT ![tld] = checkedCount]
      /\ files' = IF save
                    THEN appendDomainsToFile(files, textFilePaths, tld, pending)
                    ELSE files
      /\ saves' = IF save
                    THEN Append(saves, [pass |-> tldIdx, checked |-> checkedCount,
                                        names |-> pending])
                    ELSE saves
      /\ pendingDomains' = IF save THEN << >> ELSE pending
      /\ lastSavedAt' = IF save THEN checkedCount ELSE lastSavedAt
      /\ listed' = IF response.ok /\ response.hasDomains
                     THEN [listed EXCEPT ![tld] =
                             @ \cup { response.domains[k].domain :
                                        k \in { j \in 1..Len(response.domains) :
                                                  response.domains[j].available } }]
                     ELSE listed
      /\ lastResponse' = response
      /\ inFlight' = inFlight - 1
      /\ elapsed' = 0
      /\ queries' = [queries EXCEPT ![Len(queries)].outcome =
                       IF ~ response.ok THEN "notok"
                       ELSE IF ~ response.hasDomains THEN "nodomains"
                       ELSE "ok"]
      /\ pc' = "delay"
      /\ UNCHANGED << configVars, textFilePaths, jsonFile, initIdx, tldIdx,
                      i, batch >>

\* a successful response that lists every candidate as taken
RespondQuiet ==
  /\ pc = "query"
  /\ HandleResponse(Quiet(batch))
  /\ UNCHANGED events

\* a response that lists available names, a successful response without a
\* "domains" member, or a non-success response
RespondEvent ==
  /\ pc = "query"
  /\ events < MaxEvents
  /\ \E response \in Eventful(batch) : HandleResponse(response)
  /\ events' = events + 1

\* the request is rejected (fetch throws) or the body cannot be decoded
\* (response.json() or response.text() throws): nothing catches it, the
\* top-level await throws and the process ends
TransportFailure ==
  /\ pc = "query"
  /\ inFlight' = inFlight - 1
  /\ queries' = [queries EXCEPT ![Len(queries)].outcome = "throw"]
  /\ pc' = "crashed"
  /\ UNCHANGED << configVars, available, textFilePaths, domainCounters,
                  files, jsonFile, initIdx, loopVars, batch, elapsed,
                  lastResponse, events, saves, listed >>

\* line 325 and the loop increment: the timer fires
DelayElapsed ==
  /\ pc = "delay"
  /\ elapsed' = elapsed + delayAfterBatch(i, Len(combos))
  /\ i' = i + BATCH_SIZE
  /\ pc' = "batch"
  /\ UNCHANGED << configVars, available, textFilePaths, domainCounters,
                  files, jsonFile, initIdx, tldIdx, pendingDomains,
                  lastSavedAt, batch, inFlight, queries, lastResponse,
                  events, saves, listed >>

\* lines 328-335: the batch loop is over, what is still pending is saved
\* and the pass ends (pendingDomains and lastSavedAt go out of scope)
EndTld ==
  /\ pc = "batch"
  /\ i >= Len(combos)
  /\ files' = IF Len(pendingDomains) > 0
                THEN appendDomainsToFile(files, textFilePaths, tlds[tldIdx],
                                         pendingDomains)
                ELSE files
  /\ pendingDomains' = << >>
  /\ tldIdx' = tldIdx + 1
  /\ pc' = "tld"
  /\ UNCHANGED << configVars, available, textFilePaths, domainCounters,
                  jsonFile, initIdx, i, lastSavedAt, netVars, saves, listed >>

\* the aggregate file written inside the TLD loop, after each TLD
WriteJson_InsideLoop ==
  /\ pc = "tld"
  /\ jsonFile.writes < tldIdx - 1
  /\ jsonFile' = [exists |-> TRUE, writes |-> jsonFile.writes + 1,
                  content |-> available]
  /\ pc' = IF tldIdx > Len(tlds) THEN "done" ELSE "tld"
  /\ UNCHANGED << configVars, available, textFilePaths, domainCounters,
                  files, initIdx, loopVars, netVars, saves, listed >>

\* lines 337-338: the aggregate file is written
WriteJson ==
  /\ pc = "tld"
  /\ tldIdx > Len(tlds)
  /\ jsonFile' = [exists |-> TRUE, writes |-> jsonFile.writes + 1,
                  content |-> available]
  /\ pc' = "done"
  /\ UNCHANGED << configVars, available, textFilePaths, domainCounters,
                  files, initIdx, loopVars, netVars, saves, listed >>

Next ==
  \/ CheckCredentials
  \/ CheckArguments
  \/ Generate
  \/ Filter
  \/ InitFile
  \/ InitDone
  \/ StartTld
  \/ IssueQuery
  \/ RespondQuiet
  \/ RespondEvent
  \/ TransportFailure
  \/ DelayElapsed
  \/ EndTld
  \/ WriteJson

Spec == Init /\ [][Next]_vars

\* ------------------------------------------------------------------------
\* The filter alone
\* ------------------------------------------------------------------------

WordPool ==
  { << "a", "b" >>, << "b", "a" >>, << "e", "e" >>, << "E", "b" >>,
    << "b", "a", "b" >>, << "a", "b", "a" >>, << "b", "a", "a" >>,
    << "a", "a", "b" >>, << "b", "b", "b" >>,
    << "b", "a", "b", "b" >>, << "a", "b", "b", "b" >>,
    << "a", "a", "a", "b" >> }

PatternPool ==
  { StrAuto, StrNone, Str_cv_vc, << "v" >>,
    << "c", "v", "c", ",", "V", "C", "V" >>,
    << "c", "v", "c", "c" >> }

\* the sequences of at most n words of the pool
WordSeqs(n) == UNION { [1..m -> WordPool] : m \in 0..n }

\* the 2^n words of n letters over "a" and "b", in the generator's order:
\* one word for each signature of length n
SignatureWords(n) ==
  [k \in 1..(2 ^ n) |->
     [j \in 1..n |-> IF ((k - 1) \div (2 ^ (n - j))) % 2 = 0 THEN "a" ELSE "b"]]

\* the filter is about to be applied to some words, for some pattern
\* argument and some value of numberOfLetters
InitFilter ==
  /\ \/ /\ allCombos \in WordSeqs(MaxInput)
        /\ numberOfLetters \in { Num(n) : n \in 1..MaxLength }
     \/ \E n \in 1..MaxGenerated :
          /\ allCombos = generateCombos(n)
          /\ numberOfLetters = Num(n)
     \/ \E n \in 1..MaxLength :
          /\ allCombos = SignatureWords(n)
          /\ numberOfLetters = Num(n)
  /\ patternArg \in PatternPool
  /\ env = [key |-> << "k" >>, secret |-> << "s" >>]
  /\ argv = [n |-> << >>, t |-> << >>, p |-> << >>]
  /\ files = NoFiles
  /\ pc = "filter"
  /\ call = NoCall
  /\ result = NoResult
  /\ Fresh

NextFilter == Filter

SpecFilter == InitFilter /\ [][NextFilter]_vars

\* ------------------------------------------------------------------------
\* The pure functions alone
\* ------------------------------------------------------------------------

\* a lower-case vowel, a lower-case consonant and an upper-case vowel
MatchLetters == { "a", "b", "U" }

SeqsUpTo(S, n) == UNION { [1..m -> S] : m \in 0..n }

MatchCalls ==
  { [fn |-> "matchesPattern", word |-> w, pattern |-> p] :
      w \in SeqsUpTo(MatchLetters, MaxWord),
      p \in SeqsUpTo({ C, V }, MaxWord) }

GenerateCalls ==
  { [fn |-> "generateCombos", length |-> n] : n \in 1..MaxGenerated }

\* one function is about to be applied to some arguments
InitPure ==
  /\ env = [key |-> << "k" >>, secret |-> << "s" >>]
  /\ argv = [n |-> << >>, t |-> << >>, p |-> << >>]
  /\ files = NoFiles
  /\ numberOfLetters = NaN
  /\ patternArg = << >>
  /\ allCombos = << >>
  /\ Fresh
  /\ pc = "call"
  /\ call \in MatchCalls \cup GenerateCalls
  /\ result = NoResult

pureFrame ==
  << env, argv, numberOfLetters, tlds, patternArg, allCombos, combos,
     available, textFilePaths, domainCounters, files, jsonFile, initIdx,
     loopVars, netVars, saves, listed, call >>

ApplyMatchesPattern ==
  /\ pc = "call"
  /\ call.fn = "matchesPattern"
  /\ result' = matchesPattern(call.word, call.pattern)
  /\ pc' = "returned"
  /\ UNCHANGED pureFrame

ApplyGenerateCombos ==
  /\ pc = "call"
  /\ call.fn = "generateCombos"
  /\ result' = generateCombos(call.length)
  /\ pc' = "returned"
  /\ UNCHANGED pureFrame

NextPure == ApplyMatchesPattern \/ ApplyGenerateCombos

SpecPure == InitPure /\ [][NextPure]_vars

\* ------------------------------------------------------------------------
\* Properties
\* ------------------------------------------------------------------------

\* the TLD of the pass in progress
CurTld == tlds[tldIdx]

\* a pass over a TLD is in progress
InPass == pc \in { "batch", "query", "delay" }

\* a pass over a TLD is in progress, or was when an exception ended the run
\* (the script's variables are then as the exception left them)
PassOpen == pc \in { "batch", "query", "delay", "crashed" }

\* the text files have been initialised
Started == pc \in { "tld", "batch", "query", "delay", "done", "crashed" }

\* the run ended, normally or not
Ended == pc \in { "done", "crashed", "exit1" }

\* ceil(n / BATCH_SIZE)
BatchCount(n) == (n + BATCH_SIZE - 1) \div BATCH_SIZE

\* the names in the text file of a TLD
FileNames(tld) == Lines(files[textFilePaths[tld]])

\* C1: every transport failure of a query is turned into an empty result at
\* the query boundary and the run goes on: no run ends by an exception, and
\* a run that passed the configuration checks ends only after all batches
\* of all TLDs were queried and the aggregate file was written.
C1_FailuresAbsorbed ==
  /\ pc # "crashed"
  /\ \A k \in 1..Len(queries) :
       queries[k].outcome = "throw" =>
         /\ pc \in { "delay", "batch", "query", "tld", "done" }
         /\ Len(available[tlds[queries[k].pass]]) >= queries[k].before
  /\ (Ended /\ pc # "exit1") =>
       /\ Len(queries) = Len(tlds) * BatchCount(Len(combos))
       /\ jsonFile.writes = 1

\* the batch just handled ended with a call of appendDomainsToFile
SavedNow ==
  /\ pc = "delay"
  /\ saves # << >>
  /\ saves[Len(saves)].pass = tldIdx
  /\ saves[Len(saves)].checked = domainCounters[CurTld]

\* lastSavedAt as it was when the batch just handled began
SavedAtBefore ==
  LET OfPass(r) == r.pass = tldIdx
      mine == SelectSeq(saves, OfPass)
  IN  IF SavedNow
        THEN (IF Len(mine) >= 2 THEN mine[Len(mine) - 1].checked ELSE 0)
        ELSE lastSavedAt

\* the pending buffer once the results of the batch just handled were added
PendingAfterBatch ==
  IF SavedNow THEN saves[Len(saves)].names ELSE pendingDomains

\* the save condition of the claim, after the batch just handled
CadenceDue ==
  \/ domainCounters[CurTld] - SavedAtBefore >= SAVE_INTERVAL
  \/ domainCounters[CurTld] = Len(combos)

C3_FilePlusPendingIsAvailable ==
  Started =>
    /\ \A t \in Range(tlds) :
         FileNames(t) \o (IF PassOpen /\ CurTld = t THEN pendingDomains
                          ELSE << >>)
           = available[t]
    /\ pc = "done" =>
         /\ jsonFile.exists
         /\ DOMAIN jsonFile.content = Range(tlds)
         /\ \A t \in Range(tlds) : FileNames(t) = jsonFile.content[t]

\* names are in the file and others are pending
C3_Witness ==
  /\ pc = "delay"
  /\ pendingDomains # << >>
  /\ Len(FileNames(CurTld)) >= 2

\* the number of candidates submitted by the queries of a pass
RECURSIVE SubmittedInPass(_, _)
SubmittedInPass(log, pass) ==
  IF log = << >> THEN 0
  ELSE (IF log[1].pass = pass THEN log[1].size ELSE 0)
         + SubmittedInPass(Tail(log), pass)

\* C4: during every pass over a TLD the checked counter of the TLD is 0 when
\* the pass starts, is the number of candidates of the pass submitted so far
\* after each batch, and is the number of filtered combinations when the
\* pass is done.
C4_CounterCountsThePass ==
  InPass =>
    /\ (pc = "batch" /\ i = 0) => domainCounters[CurTld] = 0
    /\ pc \in { "batch", "delay" } =>
         domainCounters[CurTld] = SubmittedInPass(queries, tldIdx)
    /\ pc = "query" =>
         domainCounters[CurTld] + Len(batch) = SubmittedInPass(queries, tldIdx)
    /\ (pc = "batch" /\ i >= Len(combos)) =>
         domainCounters[CurTld] = Len(combos)

\* the names the batch just handled added to the available sequence
AddedByBatch ==
  SubSeq(available[CurTld], queries[Len(queries)].before + 1,
         Len(available[CurTld]))

\* C5: a batch query that gets a non-success response adds no name to the
\* available sequence or the pending buffer of its TLD, advances the checked
\* counter by the size of the batch, and the next query issued is the one
\* for the next batch of the TLD (or the first of the next TLD); the failed
\* batch is not queried again.
C5_FailedBatchIsSkipped ==
  /\ (pc = "delay" /\ ~ lastResponse.ok) =>
       LET q == queries[Len(queries)]
       IN  /\ q.outcome = "notok"
           /\ AddedByBatch = << >>
           /\ Len(PendingAfterBatch) = q.pendingBefore
           /\ domainCounters[CurTld] = q.counterBefore + q.size
  /\ \A k \in 1..Len(queries) :
       queries[k].outcome = "notok" =>
         /\ k < Len(queries) =>
              \/ /\ queries[k + 1].pass = queries[k].pass
                 /\ queries[k + 1].at = queries[k].at + BATCH_SIZE
              \/ /\ queries[k + 1].pass = queries[k].pass + 1
                 /\ queries[k + 1].at = 0
                 /\ queries[k].at + queries[k].size = Len(combos)
         /\ \A j \in 1..Len(queries) :
              (j # k) =>
                << queries[j].pass, queries[j].at >>
                  # << queries[k].pass, queries[k].at >>

\* a non-success response was followed by the next query
C5_Witness ==
  \E k \in 1..Len(queries) : queries[k].outcome = "notok" /\ k < Len(queries)

\* C6: at most one query is in flight, and after every completed query,
\* the last of a TLD included, exactly one delay of DELAY passes before the
\* next query is issued.
C6_OneQueryThenOneDelay ==
  /\ inFlight \in { 0, 1 }
  /\ (inFlight = 1) <=> (pc = "query")
  /\ \A k \in 2..Len(queries) : queries[k].waited = DELAY
  /\ (pc \in { "batch", "tld", "done" } /\ queries # << >>) =>
       elapsed = DELAY
  /\ pc = "delay" => elapsed = 0

\* the first query of the second TLD is in flight
C6_Witness ==
  /\ pc = "query"
  /\ tldIdx = 2
  /\ i = 0
  /\ queries[Len(queries)].waited = DELAY

\* the names a response lists as available, in the order of the response
ListedAvailable(response) ==
  LET Flagged(res) == res.available = TRUE
      found == SelectSeq(response.domains, Flagged)
  IN  [k \in 1..Len(found) |-> found[k].domain]

\* C7: a name is in the available sequence of a TLD, in the pending buffer,
\* in the text file or in the aggregate file only if a successful response
\* to a query of that TLD listed it as available; a batch adds exactly the
\* names its response lists as available, none when the query failed.
C7_NeverOverReports ==
  /\ \A t \in DOMAIN available : Range(available[t]) \subseteq listed[t]
  /\ PassOpen => Range(pendingDomains) \subseteq listed[CurTld]
  /\ Started =>
       \A t \in Range(tlds) : Range(FileNames(t)) \subseteq listed[t]
  /\ jsonFile.exists =>
       \A t \in DOMAIN jsonFile.content :
         Range(jsonFile.content[t]) \subseteq listed[t]
  /\ pc = "delay" =>
       AddedByBatch = IF lastResponse.ok /\ lastResponse.hasDomains
                        THEN ListedAvailable(lastResponse)
                        ELSE << >>

\* a successful response listed some candidates as available and others
\* as taken
C7_Witness ==
  /\ pc = "delay"
  /\ lastResponse.ok
  /\ AddedByBatch # << >>
  /\ \E k \in 1..Len(lastResponse.domains) :
       ~ lastResponse.domains[k].available

\* the signature set of the run, when there is one
ActiveSignatures ==
  IF patternArg = StrAuto
    THEN getBestPatternsForLength(numberOfLetters.val)
    ELSE PatternTokens(patternArg)

\* C8: unless the pattern is "none", every candidate of a query is a
\* combination of the requested length followed by the TLD, the combination
\* is pronounceable and, when a signature set is active, matches one of its
\* signatures.
C8_OnlyFilteredCandidates ==
  (pc = "query" /\ patternArg # StrNone) =>
    \A k \in 1..Len(batch) :
      LET name  == batch[k]
          combo == SubSeq(name, 1, Len(name) - Len(CurTld))
      IN  /\ name = combo \o CurTld
          /\ Len(combo) = numberOfLetters.val
          /\ Range(combo) \subseteq Range(letters)
          /\ hasGoodPronounceability(combo)
          /\ (patternArg # StrAuto \/ ActiveSignatures # << >>) =>
               \E j \in 1..Len(ActiveSignatures) :
                 matchesPattern(combo, ActiveSignatures[j])

\* a query of a run with an explicit signature is in flight
C8_Witness ==
  /\ pc = "query"
  /\ patternArg \notin { StrNone, StrAuto }
  /\ Len(batch) > 0

\* the argument is a positive integer in decimal notation
IsPositiveInteger(str) ==
  LET t == trim(str)
  IN  /\ t # << >>
      /\ \A k \in 1..Len(t) : IsDigit(DecDigits, t[k])
      /\ DigitsValue(DecDigits, t, 0) >= 1

\* C9: when a credential is missing, or the number-of-letters argument is
\* missing or not a positive integer, the run ends in the fatal-error
\* outcome without any work: no query, no text file created or truncated,
\* no aggregate file; the credentials are checked before the letter count.
C9_BadConfigurationIsFatal ==
  (CredentialsMissing(env) \/ ~ IsPositiveInteger(argv.n)) =>
    /\ pc \in { "credentials", "arguments", "exit1" }
    /\ CredentialsMissing(env) =>
         /\ pc \in { "credentials", "exit1" }
         /\ numberOfLetters = NaN
    /\ queries = << >>
    /\ files \in DiskChoices
    /\ jsonFile = NoJson

\* the filter's result as the claim gives it, for the signatures sigs of an
\* explicit pattern argument
FilterAsClaimed(sigs) ==
  LET MatchesOne(set, combo) ==
        \E k \in 1..Len(set) : matchesPattern(combo, set[k])
      builtin == getBestPatternsForLength(numberOfLetters.val)
      three == << << "C", "V", "C" >>, << "V", "C", "V" >>,
                  << "C", "V", "V" >> >>
      KeepThree(combo) ==
        MatchesOne(three, combo) /\ hasGoodPronounceability(combo)
      KeepBuiltin(combo) ==
        MatchesOne(builtin, combo) /\ hasGoodPronounceability(combo)
      KeepExplicit(combo) ==
        MatchesOne(sigs, combo) /\ hasGoodPronounceability(combo)
  IN  IF patternArg = StrNone THEN allCombos
      ELSE IF patternArg = StrAuto /\ numberOfLetters.val = 3
        THEN SelectSeq(allCombos, KeepThree)
      ELSE IF patternArg = StrAuto /\ builtin = << >>
        THEN SelectSeq(allCombos, hasGoodPronounceability)
      ELSE IF patternArg = StrAuto
        THEN SelectSeq(allCombos, KeepBuiltin)
      ELSE SelectSeq(allCombos, KeepExplicit)

\* the comma-separated tokens of a pattern argument, upper-cased
UpperCasedTokens(patternFilter) ==
  LET parts == split(patternFilter, ",")
  IN  [k \in 1..Len(parts) |->
         [j \in 1..Len(parts[k]) |-> toUpperCase(parts[k][j])]]

\* C10 as stated: the filter returns, in input order, the combinations that
\* match a signature of the set and are pronounceable, the set of an
\* explicit pattern being its comma-separated tokens, upper-cased; "auto"
\* with length 3 uses CVC, VCV, CVV; "none" returns the input; "auto" with a
\* length without built-in signatures keeps the pronounceable combinations.
C10_FilterWithUpperCasedTokens ==
  pc = "initFiles" => combos = FilterAsClaimed(UpperCasedTokens(patternArg))

\* C10 as amended: the same, the set of an explicit pattern being its
\* comma-separated tokens, each trimmed of surrounding white space and
\* upper-cased.
C10_FilterWithTrimmedTokens ==
  pc = "initFiles" => combos = FilterAsClaimed(PatternTokens(patternArg))

\* an explicit pattern with white space after the comma kept a combination
\* that matches the token after the comma, and dropped another one
C10_Witness ==
  /\ pc = "initFiles"
  /\ patternArg = Str_cv_vc
  /\ \E k \in 1..Len(combos) : getPattern(combos[k]) = << "V", "C" >>
  /\ Len(combos) < Len(allCombos)

\* p is at the start of s, at the end of s, somewhere in s
IsPrefix(p, s) ==
  /\ Len(p) <= Len(s)
  /\ \A k \in 1..Len(p) : s[k] = p[k]

IsSuffix(p, s) ==
  /\ Len(p) <= Len(s)
  /\ \A k \in 1..Len(p) : s[Len(s) - Len(p) + k] = p[k]

IsInfix(p, s) ==
  \E d \in 0..(Len(s) - Len(p)) : \A k \in 1..Len(p) : s[d + k] = p[k]

MatchesAsClaimed(word, P) ==
  LET S == getPattern(word)
  IN  CASE Len(S) = Len(P) -> S = P
        [] Len(P) < Len(S) -> IsPrefix(P, S) \/ IsSuffix(P, S) \/ IsInfix(P, S)
        [] Len(P) > Len(S) -> IsPrefix(S, P) \/ IsInfix(S, P)

Returned(fn) == pc = "returned" /\ call.fn = fn

\* C11: for every word and every signature P over {C, V}, with S the
\* signature of the word, matchesPattern returns S = P when the lengths are
\* equal, "S starts with, ends with or contains P" when P is shorter, and
\* "P starts with S or P contains S" when P is longer, nothing else being
\* tested in that last branch.
C11_MatchesBySignature ==
  Returned("matchesPattern") =>
    result = MatchesAsClaimed(call.word, call.pattern)

\* a longer pattern that ends with the word's signature and does not start
\* with it has been matched
C11_Witness ==
  /\ Returned("matchesPattern")
  /\ Len(call.pattern) > Len(call.word)
  /\ call.word # << >>
  /\ IsSuffix(getPattern(call.word), call.pattern)
  /\ ~ IsPrefix(getPattern(call.word), call.pattern)
  /\ result = TRUE

\* the lower-case alphabet, in order
Alphabet ==
  << "a", "b", "c", "d", "e", "f", "g", "h", "i", "j", "k", "l", "m",
     "n", "o", "p", "q", "r", "s", "t", "u", "v", "w", "x", "y", "z" >>

Rank(ch) == CHOOSE k \in 1..Len(Alphabet) : Alphabet[k] = ch

\* a is before b in lexicographic order, for strings of the same length
LexLess(a, b) ==
  \E k \in 1..Len(a) :
    /\ Rank(a[k]) < Rank(b[k])
    /\ \A j \in 1..(k - 1) : a[j] = b[j]

\* C12: for every length L >= 1, generateCombos(L) returns exactly 26^L
\* strings, pairwise distinct, each of L lower-case letters, in strictly
\* increasing lexicographic order.
C12_GenerateIsTheOrderedPower ==
  Returned("generateCombos") =>
    LET L == call.length
    IN  /\ Len(result) = Len(Alphabet) ^ L
        /\ Cardinality(Range(result)) = Len(result)
        /\ \A k \in 1..Len(result) :
             /\ Len(result[k]) = L
             /\ Range(result[k]) \subseteq Range(Alphabet)
        /\ \A k \in 1..(Len(result) - 1) : LexLess(result[k], result[k + 1])

\* the two-letter strings have been generated: "az" is followed by "ba"
C12_Witness ==
  /\ Returned("generateCombos")
  /\ call.length = 2
  /\ result[26] = << "a", "z" >>
  /\ result[27] = << "b", "a" >>

\* the queries of a pass, in the order issued
PassQueries(pass) ==
  LET OfPass(q) == q.pass = pass
  IN  SelectSeq(queries, OfPass)

\* the pass is over: the loop moved on to a later TLD, or the run is done
PassDone(pass) == pass < tldIdx /\ pc \in { "tld", "batch", "query", "delay", "done" }

Min(a, b) == IF a < b THEN a ELSE b

\* C13: in each pass over a TLD with n filtered combinations, the queries
\* carry consecutive slices of the candidates (combination + TLD, in filter
\* order): the k-th query starts where the previous ended, has between 1 and
\* 50 candidates and exactly 50 unless it is the last, a finished pass issued
\* exactly ceil(n/50) queries, and with n = 0 there is no query, no save and
\* no delay.
C13_ConsecutiveSlices ==
  Started =>
    LET n == Len(combos)
    IN  /\ \A pass \in 1..Len(tlds) :
             LET pq == PassQueries(pass)
             IN  /\ Len(pq) <= BatchCount(n)
                 /\ PassDone(pass) => Len(pq) = BatchCount(n)
                 /\ pass > tldIdx => pq = << >>
                 /\ \A k \in 1..Len(pq) :
                      /\ pq[k].at = (k - 1) * 50
                      /\ pq[k].size = Min(50, n - pq[k].at)
                      /\ pq[k].size \in 1..50
                      /\ k < BatchCount(n) => pq[k].size = 50
        /\ pc = "query" =>
             /\ queries # << >>
             /\ queries[Len(queries)].pass = tldIdx
             /\ Len(batch) = queries[Len(queries)].size
             /\ \A k \in 1..Len(batch) :
                  batch[k] = combos[queries[Len(queries)].at + k] \o CurTld
        /\ n = 0 =>
             /\ queries = << >>
             /\ saves = << >>
             /\ elapsed = 0
             /\ pc \notin { "query", "delay" }

\* a pass over 105 combinations is over: it issued three queries, the last
\* with the five candidates left
C13_Witness ==
  /\ Len(combos) = 105
  /\ PassDone(1)
  /\ Len(PassQueries(1)) = 3
  /\ PassQueries(1)[3].at = 100
  /\ PassQueries(1)[3].size = 5

\* what a step that issues a query, saves, or waits must satisfy for the
\* TLDs to be processed in list order
InListOrder ==
  /\ Started => tldIdx' >= tldIdx
  /\ Len(queries') > Len(queries) =>
       /\ tldIdx' = tldIdx
       /\ tldIdx \in 1..Len(tlds)
       /\ queries'[Len(queries')].pass = tldIdx
  /\ Len(saves') > Len(saves) =>
       /\ tldIdx' = tldIdx
       /\ saves'[Len(saves')].pass = tldIdx
  /\ elapsed' > elapsed => tldIdx' = tldIdx /\ InPass
  /\ (Started /\ files' # files) =>
       /\ InPass
       /\ tldIdx \in 1..Len(tlds)
       /\ \A q \in DOMAIN files : q # textFilePaths[CurTld] => files'[q] = files[q]

\* what a step must satisfy for the aggregate file to be written once, at
\* the end
AggregateLast ==
  /\ jsonFile' # jsonFile =>
       /\ ~ jsonFile.exists
       /\ jsonFile'.exists
       /\ jsonFile'.writes = 1
       /\ tldIdx > Len(tlds)
       /\ pc' = "done"
  /\ jsonFile.exists => files' = files /\ queries' = queries /\ saves' = saves
  /\ pc' = "done" => jsonFile'.writes = 1

\* C14: the TLDs are processed strictly in list order: every query, save
\* and delay of a TLD, its final flush included, happens while the loop is
\* at that TLD, and the loop position never goes back; the aggregate file is
\* written exactly once, after the last TLD, and no text file changes once
\* it is written.
C14_ListOrderThenAggregate == [][InListOrder /\ AggregateLast]_vars

\* a run over two TLDs is done: queries and a save of the first, queries of
\* the second, the aggregate file written
C14_Witness ==
  /\ pc = "done"
  /\ Len(tlds) = 2
  /\ jsonFile.exists
  /\ queries # << >>
  /\ queries[1].pass = 1
  /\ queries[Len(queries)].pass = 2
  /\ saves # << >>
  /\ saves[1].pass = 1

\* C15: at the end of a batch iteration, after the save step, a non-empty
\* pending buffer implies checkedCount - lastSavedAt < 500 and checkedCount
\* other than the total; and when the processing of a TLD is done nothing
\* found for it is left unsaved: its text file holds all its available
\* names.
C15_PendingBoundedByCadence ==
  /\ (pc = "delay" /\ pendingDomains # << >>) =>
       /\ domainCounters[CurTld] - lastSavedAt < 500
       /\ domainCounters[CurTld] # Len(combos)
  /\ pc \in { "tld", "done" } =>
       /\ pendingDomains = << >>
       /\ \A pass \in 1..(tldIdx - 1) :
            FileNames(tlds[pass]) = available[tlds[pass]]

\* names found after a save are pending at the end of a batch iteration
C15_Witness ==
  /\ pc = "delay"
  /\ pendingDomains # << >>
  /\ lastSavedAt > 0
  /\ domainCounters[CurTld] - lastSavedAt < 500

\* the TLDs of the list other than the one being processed
OtherTlds == Range(tlds) \ { CurTld }

\* a step of the pass over a TLD leaves the other TLDs alone
OnlyCurrentTld ==
  InPass =>
    \A t \in OtherTlds :
      /\ available'[t] = available[t]
      /\ domainCounters'[t] = domainCounters[t]
      /\ textFilePaths'[t] = textFilePaths[t]
      /\ files'[textFilePaths[t]] = files[textFilePaths[t]]

\* a step truncates a text file only in the initialisation loop, before any
\* query, and afterwards a file is only appended to
TruncatedThenAppended ==
  /\ (pc = "initFiles" /\ files' # files) =>
       /\ queries' = << >>
       /\ files'[textFilePaths'[tlds[initIdx]]] = << >>
  /\ (pc = "initFiles" /\ pc' = "tld") =>
       \A t \in Range(tlds) : files'[textFilePaths'[t]] = << >>
  /\ Started =>
       /\ DOMAIN files' = DOMAIN files
       /\ \A q \in DOMAIN files : IsPrefix(files[q], files'[q])

\* C16: while a TLD is being processed, the available sequence, the
\* checked counter and the text file of every other TLD of the list are
\* unchanged; the filtered combinations are never modified; each text file
\* is truncated at run start, before the first query, and from then on only
\* appended to.
C16_OnlyTheCurrentTldChanges ==
  [][ /\ OnlyCurrentTld
      /\ pc \notin { "credentials", "arguments", "generate", "filter" } =>
           combos' = combos
      /\ TruncatedThenAppended ]_vars

\* the second TLD of a list of two different TLDs is being processed and
\* names are in the file of the first and in the file of the second
C16_Witness ==
  /\ InPass
  /\ tldIdx = 2
  /\ tlds[1] # tlds[2]
  /\ FileNames(tlds[1]) # << >>
  /\ FileNames(tlds[2]) # << >>

\* a signature with a vowel and a consonant, and neither three consonants
\* nor three vowels in a row
SignaturePlausible(sig) ==
  /\ \E k \in 1..Len(sig) : sig[k] = "V"
  /\ \E k \in 1..Len(sig) : sig[k] = "C"
  /\ \A k \in 1..(Len(sig) - 2) :
       /\ ~ (sig[k] = "C" /\ sig[k + 1] = "C" /\ sig[k + 2] = "C")
       /\ ~ (sig[k] = "V" /\ sig[k + 1] = "V" /\ sig[k + 2] = "V")

\* the filter was applied with "auto" to words that all have the length
\* given, a length from 2 to 7
AutoOnLength(n) ==
  /\ pc = "initFiles"
  /\ patternArg = StrAuto
  /\ numberOfLetters = Num(n)
  /\ n \in 2..7
  /\ \A k \in 1..Len(allCombos) : Len(allCombos[k]) = n

\* C17: with "auto" and a length from 2 to 7 the plausibility test removes
\* nothing: every built-in signature is plausible, and the filter returns
\* the combinations of that length whose signature is a member of the
\* built-in table for the length (for length 2 those with signature CV or
\* VC: "be" is kept, "ee" is rejected).
C17_AutoKeepsTheTable ==
  \A n \in 2..7 :
    AutoOnLength(n) =>
      LET table == Range(getBestPatternsForLength(n))
          InTable(combo) == getPattern(combo) \in table
          IsCvOrVc(combo) ==
            getPattern(combo) \in { << "C", "V" >>, << "V", "C" >> }
      IN  /\ \A sig \in table : SignaturePlausible(sig)
          /\ combos = SelectSeq(allCombos, InTable)
          /\ n = 2 =>
               /\ combos = SelectSeq(allCombos, IsCvOrVc)
               /\ << "b", "e" >> \in Range(allCombos) =>
                    << "b", "e" >> \in Range(combos)
               /\ << "e", "e" >> \notin Range(combos)

\* "auto" was applied to the four-letter words: the word with two consonants
\* in a row whose signature CVCC is in the table is kept
C17_Witness ==
  /\ AutoOnLength(4)
  /\ Len(allCombos) = 16
  /\ << "b", "a", "b", "b" >> \in Range(combos)
  /\ << "b", "b", "a", "b" >> \notin Range(combos)

====
